---- MODULE Spec2Model ----
(***************************************************************************)
(* Model of src/__init__.py: the CivitAI identifier parser, the metadata   *)
(* resolver (get_civitai_details) and the node entry point                 *)
(* (CivitAIInfoProcessor.process_civitai_info).                            *)
(*                                                                         *)
(* Text is modelled as a sequence of tokens; a token is a run of           *)
(* characters that the code never looks inside ("models", "civitai:", a    *)
(* single digit, a single separator).  The text a sequence stands for is   *)
(* the concatenation of its tokens.                                        *)
(***************************************************************************)
EXTENDS Integers, Sequences, FiniteSets

\* ------------------------------------------------------------------ bounds

\* Longest input (in input words) handed to the parser specification.
MaxLen == 4
\* Longest input (in input words) handed to the whole node.
MaxInputLen == 3
\* Largest id an upstream record carries (modelId, modelVersions[0].id).
MaxId == 1

\* ------------------------------------------------------------------ values

\* Python's None, for an id (ids parsed by \d+ / isdigit are >= 0).
None == -1
\* A key that a JSON object does not have.
Absent == -2

Digits == <<"0", "1", "2", "3", "4", "5", "6", "7", "8", "9">>

IsDigitTok(t) == \E i \in 1..10 : Digits[i] = t

DigitVal(t) == (CHOOSE i \in 1..10 : Digits[i] = t) - 1

\* str.isdigit(): non-empty and every character a digit.
isdigit(s) == s # <<>> /\ \A i \in DOMAIN s : IsDigitTok(s[i])

\* int() of a string of digits: base 10, leading zeros dropped.
RECURSIVE IntOf(_)
IntOf(s) ==
  IF s = <<>> THEN 0
  ELSE 10 * IntOf(SubSeq(s, 1, Len(s) - 1)) + DigitVal(s[Len(s)])

\* str() of a non-negative int, and of None (f-string formatting of an id).
RECURSIVE StrNat(_)
StrNat(n) ==
  IF n < 10 THEN <<Digits[n + 1]>>
  ELSE StrNat(n \div 10) \o <<Digits[(n % 10) + 1]>>

Str(x) == IF x = None THEN <<"None">> ELSE StrNat(x)

\* str.strip(): leading and trailing blanks removed.
RECURSIVE strip(_)
strip(s) ==
  IF s = <<>> THEN s
  ELSE IF Head(s) = " " THEN strip(Tail(s))
  ELSE IF s[Len(s)] = " " THEN strip(SubSeq(s, 1, Len(s) - 1))
  ELSE s

\* Python truthiness of an id: None and 0 are false.
Truthy(x) == x # None /\ x # Absent /\ x # 0

\* ------------------------------------------------------------------ parser

\* Index of the last digit of the maximal digit run starting at i (\d+ is greedy).
DigitRunEnd(s, i) ==
  CHOOSE j \in i..Len(s) :
    /\ \A k \in i..j : IsDigitTok(s[k])
    /\ (j = Len(s) \/ ~IsDigitTok(s[j + 1]))

\* The regular expression (?:urn:air:sdxl:lora:)?(?:civitai:)?(\d+)@(\d+) tried
\* at position p: <<group 1, group 2>>, or <<>> when it does not match there.
MatchAt(s, p) ==
  LET a == IF p <= Len(s) /\ s[p] = "urn:air:sdxl:lora:" THEN p + 1 ELSE p
      b == IF a <= Len(s) /\ s[a] = "civitai:" THEN a + 1 ELSE a
  IN IF b <= Len(s) /\ IsDigitTok(s[b])
     THEN LET e == DigitRunEnd(s, b)
          IN IF e + 2 <= Len(s) /\ s[e + 1] = "@" /\ IsDigitTok(s[e + 2])
             THEN <<SubSeq(s, b, e), SubSeq(s, e + 2, DigitRunEnd(s, e + 2))>>
             ELSE <<>>
     ELSE <<>>

\* re.match: the expression tried at the start of the text only.
air_match_anchored(s) == MatchAt(s, 1)

\* re.search: the leftmost position where the expression matches.
air_match(s) ==
  IF \E p \in DOMAIN s : MatchAt(s, p) # <<>>
  THEN LET p == CHOOSE q \in DOMAIN s :
                  /\ MatchAt(s, q) # <<>>
                  /\ \A r \in 1..(q - 1) : MatchAt(s, r) = <<>>
       IN MatchAt(s, p)
  ELSE <<>>

\* Characters urllib allows in a scheme: letters, digits, "+", "-", ".".
SchemeTok(t) ==
  t \in {"models", "model-versions", "modelVersionId", "x"} \/ IsDigitTok(t)

\* Position of the first token holding a ":" (0 when there is none).
FirstColon(s) ==
  IF \E i \in DOMAIN s : s[i] \in {"civitai:", "urn:air:sdxl:lora:"}
  THEN CHOOSE i \in DOMAIN s :
         /\ s[i] \in {"civitai:", "urn:air:sdxl:lora:"}
         /\ \A k \in 1..(i - 1) : s[k] \notin {"civitai:", "urn:air:sdxl:lora:"}
  ELSE 0

\* Index of the first token of s in set T at or after i, Len(s)+1 when none.
FirstOf(s, T, i) ==
  IF \E k \in i..Len(s) : s[k] \in T
  THEN CHOOSE k \in i..Len(s) : s[k] \in T /\ \A j \in i..(k - 1) : s[j] \notin T
  ELSE Len(s) + 1

\* urllib.parse.urlsplit, scheme part: what is left once "<scheme>:" is cut off.
\* The text before the first ":" is a scheme when it starts with a letter and
\* holds scheme characters only.
AfterScheme(s) ==
  LET c == FirstColon(s)
  IN IF /\ c > 0
        /\ \A k \in 1..(c - 1) : SchemeTok(s[k])
        /\ ~IsDigitTok(s[1])
     THEN (IF s[c] = "urn:air:sdxl:lora:" THEN <<"air:sdxl:lora:">> ELSE <<>>)
          \o SubSeq(s, c + 1, Len(s))
     ELSE s

\* urllib.parse.urlsplit, netloc part: a leading "//" opens a network location
\* that runs to the next "/" or "?"; the rest is path and query.
AfterNetloc(u) ==
  IF Len(u) >= 2 /\ u[1] = "/" /\ u[2] = "/"
  THEN SubSeq(u, FirstOf(u, {"/", "?"}, 3), Len(u))
  ELSE u

\* urllib.parse.urlparse(url): the path and the query of the url.
urlparse(s) ==
  LET u == AfterNetloc(AfterScheme(s))
      q == FirstOf(u, {"?"}, 1)
  IN [path |-> SubSeq(u, 1, q - 1), query |-> SubSeq(u, q + 1, Len(u))]

\* str.split(sep): the pieces of s between the separator tokens.
RECURSIVE split(_, _)
split(s, sep) ==
  LET k == FirstOf(s, {sep}, 1)
  IN IF k > Len(s) THEN <<s>>
     ELSE <<SubSeq(s, 1, k - 1)>> \o split(SubSeq(s, k + 1, Len(s)), sep)

\* [p for p in xs if p]
RECURSIVE NonEmpty(_)
NonEmpty(xs) ==
  IF xs = <<>> THEN <<>>
  ELSE (IF Head(xs) = <<>> THEN <<>> ELSE <<Head(xs)>>) \o NonEmpty(Tail(xs))

\* urllib.parse.parse_qs restricted to one name: the values of the pairs
\* "name=value" of the query with that name, blank values dropped, in order.
RECURSIVE ValuesOf(_, _)
ValuesOf(pairs, name) ==
  IF pairs = <<>> THEN <<>>
  ELSE LET nv == Head(pairs)
           k  == FirstOf(nv, {"="}, 1)
           hit == /\ k <= Len(nv)
                  /\ SubSeq(nv, 1, k - 1) = name
                  /\ k < Len(nv)
       IN (IF hit THEN <<SubSeq(nv, k + 1, Len(nv))>> ELSE <<>>)
          \o ValuesOf(Tail(pairs), name)

parse_qs(query, name) == ValuesOf(split(query, "&"), name)

\* list.index(x): the first position of x in xs, 0 when absent.
index(xs, x) ==
  IF \E i \in DOMAIN xs : xs[i] = x
  THEN CHOOSE i \in DOMAIN xs : xs[i] = x /\ \A k \in 1..(i - 1) : xs[k] # x
  ELSE 0

\* The numeric segment right after the first segment equal to word, else None.
NumberAfter(path_parts, word) ==
  LET i == index(path_parts, <<word>>)
  IN IF i > 0 /\ i + 1 <= Len(path_parts) /\ isdigit(path_parts[i + 1])
     THEN IntOf(path_parts[i + 1])
     ELSE None

\* The URL branch of parse_civitai_input.
parse_url(s) ==
  LET parsed_url == urlparse(s)
      path_parts == NonEmpty(split(parsed_url.path, "/"))
      values     == parse_qs(parsed_url.query, <<"modelVersionId">>)
      raises     == values # <<>> /\ ~isdigit(strip(values[1]))
      qversion   == IF values # <<>> THEN IntOf(strip(values[1])) ELSE None
      model_id   == NumberAfter(path_parts, "models")
      version_id == IF ~Truthy(qversion) /\ index(path_parts, <<"model-versions">>) > 0
                    THEN (IF NumberAfter(path_parts, "model-versions") # None
                          THEN NumberAfter(path_parts, "model-versions")
                          ELSE qversion)
                    ELSE qversion
  IN IF raises THEN <<None, None>> ELSE <<model_id, version_id>>

\* parse_civitai_input(url_or_id): <<model id, version id>>.
parse_civitai_input(text) ==
  LET url_or_id == strip(text)
  IN IF url_or_id = <<>> THEN <<None, None>>
     ELSE IF air_match(url_or_id) # <<>>
          THEN <<IntOf(air_match(url_or_id)[1]), IntOf(air_match(url_or_id)[2])>>
     ELSE IF isdigit(url_or_id) THEN <<IntOf(url_or_id), None>>
     ELSE parse_url(url_or_id)

\* ------------------------------------------------------------------ inputs

\* The words inputs are built from; a word stands for one or more tokens.
Expand(w) ==
  CASE w = "/models/"         -> <<"/", "models", "/">>
    [] w = "/model-versions/" -> <<"/", "model-versions", "/">>
    [] w = "?modelVersionId=" -> <<"?", "modelVersionId", "=">>
    [] OTHER                  -> <<w>>

RECURSIVE Flatten(_)
Flatten(ws) == IF ws = <<>> THEN <<>> ELSE Expand(Head(ws)) \o Flatten(Tail(ws))

WordSeqs(W, n) == UNION {[1..k -> W] : k \in 0..n}

ParserWords ==
  {" ", "0", "1", "@", "x", "civitai:", "urn:air:sdxl:lora:",
   "/models/", "/model-versions/", "?modelVersionId="}

NodeWords == {" ", "0", "1", "@", "/models/", "/model-versions/"}

ParserInputs == {Flatten(ws) : ws \in WordSeqs(ParserWords, MaxLen)}

NodeInputs == {Flatten(ws) : ws \in WordSeqs(NodeWords, MaxInputLen)}

\* ------------------------------------------------------------------ replies

\* What CivitaiAPI._request returns: the error dict of an HTTP or transport
\* failure ("error"), None for an empty body ("none"), or the JSON object of the
\* body ("json") with the fields the resolver reads.
Record0 ==
  [kind |-> "json", hasError |-> FALSE, modelId |-> Absent, versions |-> "missing",
   firstId |-> Absent, description |-> "absent", trainedWords |-> "absent"]

ErrorDict == [Record0 EXCEPT !.kind = "error", !.hasError = TRUE]

NoneReply == [Record0 EXCEPT !.kind = "none"]

Ids == {Absent, None} \cup 0..MaxId

\* modelVersions: key missing, [], a list whose first entry is an object (with
\* its "id": missing, null or a number), a list of scalars.
ModelReplies ==
  {ErrorDict, NoneReply, [Record0 EXCEPT !.hasError = TRUE]}
  \cup {[Record0 EXCEPT !.versions = vs, !.description = "html"] :
          vs \in {"missing", "empty", "scalars"}}
  \cup {[Record0 EXCEPT !.versions = "first", !.firstId = f, !.description = "html"] :
          f \in Ids}
  \cup {[Record0 EXCEPT !.versions = "first", !.firstId = MaxId, !.description = d] :
          d \in {"absent", "null", "empty", "number"}}

VersionReplies ==
  {ErrorDict, NoneReply, [Record0 EXCEPT !.hasError = TRUE, !.modelId = MaxId]}
  \cup {[Record0 EXCEPT !.modelId = m, !.trainedWords = "strings"] : m \in Ids}
  \cup {[Record0 EXCEPT !.modelId = MaxId, !.trainedWords = t] :
          t \in {"absent", "null", "numbers"}}

\* A Python value that can end up in an output slot.
PyStr(s) == [type |-> "str", text |-> s]
PyNum(s) == [type |-> "num", text |-> s]
Missing  == [type |-> "absent", text |-> <<>>]

AnnotationKeys == {"character_name", "character_description", "s1", "s2", "s3"}

LLMKeys == AnnotationKeys \cup {"error"}

LLMError(msg) == [k \in LLMKeys |-> IF k = "error" THEN PyStr(<<msg>>) ELSE Missing]

\* What call_openrouter_api returns: one of its error dicts, or the JSON object
\* found in the completion, with any subset of the five keys.
LLMReplies ==
  {LLMError(m) : m \in {"Erro na requisição: ", "Erro inesperado: ",
                        "Resposta da LLM não contém JSON válido",
                        "Erro ao decodificar JSON da resposta",
                        "Resposta inesperada da API"}}
  \cup {[k \in LLMKeys |-> IF k \in P THEN PyStr(<<k>>) ELSE Missing] :
          P \in SUBSET AnnotationKeys}
  \cup {[k \in LLMKeys |-> IF k = "character_name" THEN PyNum(<<"7">>)
                           ELSE IF k = "error" THEN Missing ELSE PyStr(<<k>>)],
        [k \in LLMKeys |-> PyStr(<<k>>)]}

\* ------------------------------------------------------------------ state

VARIABLES
  link_or_id,    \* the input text
  pc,            \* where the call is
  model_id,      \* get_civitai_details: model_id
  version_id,    \* get_civitai_details: version_id
  model_info,    \* get_civitai_details: model_info
  requests,      \* the metadata GETs issued so far, in order, with their outcome
  posts,         \* the completion POSTs issued so far
  civitai_data,  \* process_civitai_info: what the resolver returned
  llm_response,  \* process_civitai_info: what the annotation client returned
  result,        \* the tuple process_civitai_info returned
  raised         \* an exception left process_civitai_info

vars == <<link_or_id, pc, model_id, version_id, model_info, requests, posts,
          civitai_data, llm_response, result, raised>>

NoData == [tag |-> "none", error |-> <<>>, model_id |-> None, version_id |-> None,
           air_id |-> <<>>, description |-> "", trained_words |-> ""]

ErrorValue(msg) == [NoData EXCEPT !.tag = "error", !.error = msg]

NoReplyYet == [k \in LLMKeys |-> Missing]

InitWith(inputs) ==
  /\ link_or_id \in inputs
  /\ pc = "start"
  /\ model_id = None
  /\ version_id = None
  /\ model_info = NoneReply
  /\ requests = <<>>
  /\ posts = 0
  /\ civitai_data = NoData
  /\ llm_response = NoReplyYet
  /\ result = <<>>
  /\ raised = FALSE

Init == InitWith(NodeInputs)

InitParser == InitWith(ParserInputs)

\* ------------------------------------------------------------------ resolver

\* The error texts of get_civitai_details.
ErrNoId == <<"Não foi possível extrair um ID de modelo ou versão válido da entrada.">>
ErrModelOfVersion(v) ==
  <<"Não foi possível encontrar o modelo para a versão ID ">> \o Str(v) \o <<".">>
ErrModel(m) == <<"Falha ao buscar informações do modelo ID ">> \o Str(m) \o <<".">>
ErrNoIdInVersion == <<"Não foi possível encontrar o ID na versão mais recente.">>
ErrNoVersions == <<"O modelo não tem nenhuma versão listada.">>
ErrVersion(v) == <<"Falha ao buscar informações da versão ID ">> \o Str(v) \o <<".">>
ErrProcessing == <<"Erro ao processar: ", "'int' object has no attribute 'get'">>

\* f"{model_id}@{version_id}"
AirId(m, v) == Str(m) \o <<"@">> \o Str(v)

\* `not model_id and version_id` without the first negation.
NoValidId_mut(m, v) == ~Truthy(m) /\ Truthy(v)

\* `if not model_id and not version_id`: no id to resolve.
NoValidId(m, v) == ~Truthy(m) /\ ~Truthy(v)

\* `if not model_id and version_id`: the model is to be found from the version.
NeedsModelLookup(m, v) == ~Truthy(m) /\ Truthy(v)

\* `not info` alone: the error dict is taken for a record.
Failed_mut(info) == info.kind = "none"

\* `not info or "error" in info`
Failed(info) == info.kind = "none" \/ info.hasError

\* `temp_version_info and 'modelId' in temp_version_info`
HasModelId(info) == info.kind # "none" /\ info.modelId # Absent

\* dict.get(key): None when the key is missing.
GetId(x) == IF x = Absent THEN None ELSE x

Request(op, id, reply) == [op |-> op, id |-> id, outcome |-> reply.kind]

ReturnFromResolver(value) ==
  /\ civitai_data' = value
  /\ model_info' = NoneReply
  /\ pc' = "resolved"

\* get_civitai_details, lines 79-87: parse, refuse an input without an id,
\* choose the first request.
Start ==
  /\ pc = "start"
  /\ LET ids == parse_civitai_input(link_or_id)
     IN /\ model_id' = ids[1]
        /\ version_id' = ids[2]
        /\ IF NoValidId(ids[1], ids[2])
           THEN ReturnFromResolver(ErrorValue(ErrNoId))
           ELSE /\ pc' = IF NeedsModelLookup(ids[1], ids[2])
                         THEN "temp_version" ELSE "model"
                /\ UNCHANGED <<civitai_data, model_info>>
  /\ UNCHANGED <<link_or_id, requests, posts, llm_response, result, raised>>

\* Lines 88-92: the version record is fetched to learn the model id.
FetchTempVersion ==
  /\ pc = "temp_version"
  /\ \E temp_version_info \in VersionReplies :
       /\ requests' = Append(requests, Request("version", version_id, temp_version_info))
       /\ IF HasModelId(temp_version_info)
          THEN /\ model_id' = temp_version_info.modelId
               /\ pc' = "model"
               /\ UNCHANGED <<civitai_data, model_info>>
          ELSE /\ ReturnFromResolver(ErrorValue(ErrModelOfVersion(version_id)))
               /\ UNCHANGED model_id
  /\ UNCHANGED <<link_or_id, version_id, posts, llm_response, result, raised>>

\* Lines 94-104: the model record is fetched; without a version id the first
\* entry of its version list supplies one.
FetchModel ==
  /\ pc = "model"
  /\ \E info \in ModelReplies :
       /\ requests' = Append(requests, Request("model", model_id, info))
       /\ IF Failed(info)
          THEN /\ ReturnFromResolver(ErrorValue(ErrModel(model_id)))
               /\ UNCHANGED version_id
          ELSE IF Truthy(version_id)
          THEN /\ pc' = "version"
               /\ model_info' = info
               /\ UNCHANGED <<version_id, civitai_data>>
          ELSE IF info.versions = "first"
          THEN /\ version_id' = GetId(info.firstId)
               /\ IF Truthy(GetId(info.firstId))
                  THEN /\ pc' = "version"
                       /\ model_info' = info
                       /\ UNCHANGED civitai_data
                  ELSE ReturnFromResolver(ErrorValue(ErrNoIdInVersion))
          ELSE IF info.versions = "scalars"
          THEN /\ ReturnFromResolver(ErrorValue(ErrProcessing))
               /\ UNCHANGED version_id
          ELSE /\ ReturnFromResolver(ErrorValue(ErrNoVersions))
               /\ UNCHANGED version_id
  /\ UNCHANGED <<link_or_id, model_id, posts, llm_response, result, raised>>

\* Lines 113-128: the bundle built from the two records.
Bundle(m, v, info, version_info) ==
  [tag |-> "bundle", error |-> <<>>, model_id |-> m, version_id |-> v,
   air_id |-> AirId(m, v),
   description |-> IF info.description = "html" THEN "text"
                   ELSE "Nenhuma descrição fornecida.",
   trained_words |-> IF version_info.trainedWords = "absent" THEN "empty"
                     ELSE version_info.trainedWords]

\* Lines 106-128: the version record is fetched and the bundle returned.  A
\* description that is neither a string nor false makes re.sub raise outside the
\* try block.
FetchVersion ==
  /\ pc = "version"
  /\ \E version_info \in VersionReplies :
       /\ requests' = Append(requests, Request("version", version_id, version_info))
       /\ IF Failed(version_info)
          THEN /\ ReturnFromResolver(ErrorValue(ErrVersion(version_id)))
               /\ UNCHANGED raised
          ELSE IF model_info.description = "number"
          THEN /\ raised' = TRUE
               /\ pc' = "done"
               /\ model_info' = NoneReply
               /\ UNCHANGED civitai_data
          ELSE /\ ReturnFromResolver(Bundle(model_id, version_id, model_info, version_info))
               /\ UNCHANGED raised
  /\ UNCHANGED <<link_or_id, model_id, version_id, posts, llm_response, result>>

\* ------------------------------------------------------------------ node

Six(msg) == [i \in 1..6 |-> PyStr(msg)]

\* dict.get(key, default)
Get(d, key, default) == IF d[key] = Missing THEN default ELSE d[key]

\* Lines 261-268 with s2 and s3 exchanged.
OutputTuple_mut(data, response) ==
  <<PyStr(data.air_id),
    Get(response, "character_name", PyStr(<<"unknown_character">>)),
    Get(response, "character_description", PyStr(<<>>)),
    Get(response, "s1", PyStr(<<>>)),
    Get(response, "s3", PyStr(<<>>)),
    Get(response, "s2", PyStr(<<>>))>>

\* Lines 261-268: the six output slots.
OutputTuple(data, response) ==
  <<PyStr(data.air_id),
    Get(response, "character_name", PyStr(<<"unknown_character">>)),
    Get(response, "character_description", PyStr(<<>>)),
    Get(response, "s1", PyStr(<<>>)),
    Get(response, "s2", PyStr(<<>>)),
    Get(response, "s3", PyStr(<<>>))>>

\* Lines 224-226: the resolver's error in all six slots.
ReturnResolverError ==
  /\ pc = "resolved"
  /\ civitai_data.tag = "error"
  /\ result' = Six(civitai_data.error)
  /\ pc' = "done"
  /\ UNCHANGED <<link_or_id, model_id, version_id, model_info, requests, posts,
                 civitai_data, llm_response, raised>>

\* Lines 229-250: the user message.  Joining '- ' + word over trained_words
\* raises when trained_words is None or holds something that is not a string.
Compose ==
  /\ pc = "resolved"
  /\ civitai_data.tag = "bundle"
  /\ IF civitai_data.trained_words \in {"null", "numbers"}
     THEN raised' = TRUE /\ pc' = "done"
     ELSE raised' = raised /\ pc' = "annotate"
  /\ UNCHANGED <<link_or_id, model_id, version_id, model_info, requests, posts,
                 civitai_data, llm_response, result>>

\* Lines 253-257: the completion POST; its error in all six slots.
CallOpenRouter ==
  /\ pc = "annotate"
  /\ \E reply \in LLMReplies :
       /\ llm_response' = reply
       /\ posts' = posts + 1
       /\ IF reply["error"] # Missing
          THEN /\ result' = Six(<<"Erro LLM: ">> \o reply["error"].text)
               /\ pc' = "done"
          ELSE /\ pc' = "map"
               /\ UNCHANGED result
  /\ UNCHANGED <<link_or_id, model_id, version_id, model_info, requests,
                 civitai_data, raised>>

\* Lines 259-268: the outputs of a successful run.
MapOutputs ==
  /\ pc = "map"
  /\ result' = OutputTuple(civitai_data, llm_response)
  /\ pc' = "done"
  /\ UNCHANGED <<link_or_id, model_id, version_id, model_info, requests, posts,
                 civitai_data, llm_response, raised>>

Next ==
  \/ Start
  \/ FetchTempVersion
  \/ FetchModel
  \/ FetchVersion
  \/ ReturnResolverError
  \/ Compose
  \/ CallOpenRouter
  \/ MapOutputs

Spec == Init /\ [][Next]_vars

\* ------------------------------------------------------------------ parser alone

\* parse_civitai_input applied to the input.
ParseInput ==
  /\ pc = "start"
  /\ model_id' = parse_civitai_input(link_or_id)[1]
  /\ version_id' = parse_civitai_input(link_or_id)[2]
  /\ pc' = "parsed"
  /\ UNCHANGED <<link_or_id, model_info, requests, posts, civitai_data,
                 llm_response, result, raised>>

NextParser == ParseInput

SpecParser == InitParser /\ [][NextParser]_vars

\* ------------------------------------------------------------------ claims

\* The input as the parser sees it, and the pair it parses to.
Trimmed == strip(link_or_id)
Parsed == parse_civitai_input(link_or_id)

\* The resolver returned a bundle, the message was composed and the completion
\* came back without an error.
Annotated ==
  /\ pc = "done"
  /\ ~raised
  /\ civitai_data.tag = "bundle"
  /\ posts = 1
  /\ llm_response["error"] = Missing

AllSame(t) == \A i \in DOMAIN t : t[i] = t[1]

Asked(i) == <<requests[i].op, requests[i].id>>

FailedRequest(i) == requests[i].outcome \in {"error", "none"}

\* C1: every call ends with a tuple of six strings and no exception escapes;
\* when the resolver or the annotation fails the six outputs are the same text.
C1_SixStringsNoException ==
  pc = "done" =>
    /\ ~raised
    /\ Len(result) = 6
    /\ \A i \in DOMAIN result : result[i].type = "str"
    /\ (civitai_data.tag = "error" \/ llm_response["error"] # Missing => AllSame(result))

\* C2: for a compound input m@v the only metadata requests are fetchModel(m)
\* and then fetchVersion(v), both of them once the resolver returns a bundle,
\* and a successful run puts "m@v" in the first output slot.
C2_CompoundTwoRequests ==
  LET g == air_match(Trimmed)
  IN g # <<>> /\ pc # "start" =>
       LET m == IntOf(g[1])
           v == IntOf(g[2])
       IN /\ Len(requests) <= 2
          /\ Len(requests) >= 1 => Asked(1) = <<"model", m>>
          /\ Len(requests) >= 2 => Asked(2) = <<"version", v>>
          /\ civitai_data.tag = "bundle" => Len(requests) = 2
          /\ Annotated => result[1] = PyStr(StrNat(m) \o <<"@">> \o StrNat(v))

\* C3: an input that parses to (null, null) makes no metadata GET and no
\* completion POST, and the call returns one non-empty error string six times.
C3_NoIdNoNetwork ==
  Parsed = <<None, None>> =>
    /\ requests = <<>>
    /\ posts = 0
    /\ ~raised
    /\ pc \in {"start", "resolved", "done"}
    /\ pc = "done" =>
         /\ Len(result) = 6
         /\ AllSame(result)
         /\ result[1].type = "str"
         /\ result[1].text # <<>>

C3_Witness ==
  /\ pc = "done"
  /\ Parsed = <<None, None>>
  /\ Trimmed # <<>>
  /\ Len(result) = 6

\* No id of the input is 0 (an id the resolver takes for a missing one).
NoZeroId == 0 \notin {Parsed[1], Parsed[2]}

\* C4: a bundle always carries two non-null ids and the air_id made of them
\* (stated for the inputs without an id 0).
C4_BundleIdsNonNull ==
  civitai_data.tag = "bundle" /\ NoZeroId =>
    /\ civitai_data.model_id \notin {None, Absent}
    /\ civitai_data.version_id \notin {None, Absent}
    /\ civitai_data.air_id = AirId(civitai_data.model_id, civitai_data.version_id)

\* A compound <digits>@<digits> written around the "@" at position i.
CompoundAt(t, i) ==
  /\ t[i] = "@"
  /\ 1 < i /\ i < Len(t)
  /\ IsDigitTok(t[i - 1]) /\ IsDigitTok(t[i + 1])

HasCompound(t) == \E i \in DOMAIN t : CompoundAt(t, i)

\* The two numbers of the first compound of t: the whole digit runs on either
\* side of its "@".
FirstCompound(t) ==
  LET i == CHOOSE k \in DOMAIN t :
             CompoundAt(t, k) /\ \A j \in 1..(k - 1) : ~CompoundAt(t, j)
      a == CHOOSE k \in 1..(i - 1) :
             /\ \A j \in k..(i - 1) : IsDigitTok(t[j])
             /\ (k = 1 \/ ~IsDigitTok(t[k - 1]))
      b == CHOOSE k \in (i + 1)..Len(t) :
             /\ \A j \in (i + 1)..k : IsDigitTok(t[j])
             /\ (k = Len(t) \/ ~IsDigitTok(t[k + 1]))
  IN <<IntOf(SubSeq(t, a, i - 1)), IntOf(SubSeq(t, i + 1, b))>>

\* C5: a compound anywhere in the input decides the result, whatever else the
\* input holds; a digits-only input gives (id, null) only without a compound;
\* the URL branch decides only what is left.
C5_CompoundFirst ==
  pc = "parsed" =>
    /\ HasCompound(Trimmed) => <<model_id, version_id>> = FirstCompound(Trimmed)
    /\ ~HasCompound(Trimmed) /\ isdigit(Trimmed) =>
         <<model_id, version_id>> = <<IntOf(Trimmed), None>>
    /\ ~HasCompound(Trimmed) /\ ~isdigit(Trimmed) /\ Trimmed # <<>> =>
         <<model_id, version_id>> = parse_url(Trimmed)

\* A URL with a models path segment that also holds a compound.
C5_Witness ==
  /\ pc = "parsed"
  /\ HasCompound(Trimmed)
  /\ \E i \in DOMAIN Trimmed : Trimmed[i] = "models"
  /\ Trimmed[1] # "civitai:"
  /\ model_id # None /\ version_id # None

\* C6: in the URL branch the model id is the number after the models segment
\* (else null), the version id is a numeric modelVersionId, else the number
\* after the model-versions segment, else null; a modelVersionId that is
\* missing or not numeric does not change the model id.  (Read in the code's
\* favour where it could be read either way: the first models and
\* model-versions segments are the ones looked at, and a modelVersionId of 0
\* yields to a model-versions segment.)
C6_UrlBranchCaptures ==
  pc = "parsed" /\ Trimmed # <<>> /\ ~HasCompound(Trimmed) /\ ~isdigit(Trimmed) =>
    LET parsed_url == urlparse(Trimmed)
        path_parts == NonEmpty(split(parsed_url.path, "/"))
        values     == parse_qs(parsed_url.query, <<"modelVersionId">>)
        numeric    == values # <<>> /\ isdigit(strip(values[1]))
    IN /\ model_id = NumberAfter(path_parts, "models")
       /\ version_id = IF numeric /\ IntOf(strip(values[1])) # 0
                       THEN IntOf(strip(values[1]))
                       ELSE IF NumberAfter(path_parts, "model-versions") # None
                       THEN NumberAfter(path_parts, "model-versions")
                       ELSE IF numeric THEN 0 ELSE None

SlotKeys == <<"character_name", "character_description", "s1", "s2", "s3">>

\* C7 as stated: slot one is the compound id, slots two to six the five
\* annotation values in order, each the empty string when its key is missing.
C7_AbsentKeysEmpty ==
  Annotated /\ Len(result) = 6 =>
    /\ result[1] = PyStr(civitai_data.air_id)
    /\ \A i \in 1..5 :
         result[i + 1] = IF llm_response[SlotKeys[i]] = Missing
                         THEN PyStr(<<>>)
                         ELSE llm_response[SlotKeys[i]]

\* C7 amended: as above, but a missing character_name gives "unknown_character".
C7_OutputSlots ==
  Annotated =>
    /\ Len(result) = 6
    /\ result[1] = PyStr(civitai_data.air_id)
    /\ \A i \in 1..5 :
         result[i + 1] = IF llm_response[SlotKeys[i]] # Missing
                         THEN llm_response[SlotKeys[i]]
                         ELSE IF i = 1 THEN PyStr(<<"unknown_character">>)
                         ELSE PyStr(<<>>)

C7_Witness ==
  /\ Annotated
  /\ llm_response["character_name"] = Missing
  /\ llm_response["s2"] = Missing
  /\ llm_response["s3"] # Missing
  /\ result[6] = PyStr(<<"s3">>)

\* C8: one resolver call makes at most two metadata requests and asks for no
\* record twice (stated for the inputs without an id 0).
C8_AtMostTwoRequests ==
  NoZeroId =>
    /\ Len(requests) <= 2
    /\ \A i, j \in DOMAIN requests : Asked(i) = Asked(j) => i = j

\* C9: a metadata request that comes back as an error value or as null is the
\* last request of the call, the resolver returns an error, and no completion
\* POST follows; the completion POST is made at most once.
C9_FailureStopsChain ==
  /\ \A i \in DOMAIN requests :
       FailedRequest(i) =>
         /\ i = Len(requests)
         /\ pc \in {"resolved", "done"}
         /\ civitai_data.tag = "error"
         /\ posts = 0
         /\ ~raised
  /\ posts <= 1
  /\ llm_response["error"] # Missing => pc = "done" /\ posts = 1

C9_Witness ==
  /\ pc = "done"
  /\ Len(requests) = 2
  /\ ~FailedRequest(1)
  /\ requests[2].outcome = "error"
  /\ AllSame(result)

\* C10: only the pair (null, null) gives the "no valid identifier" error; any
\* other pair is resolved, and the first request asks for the parsed id.
C10_NoIdErrorOnlyForNullPair ==
  pc # "start" /\ Parsed # <<None, None>> =>
    /\ civitai_data # ErrorValue(ErrNoId)
    /\ requests # <<>> =>
         Asked(1) = IF Parsed[1] # None THEN <<"model", Parsed[1]>>
                    ELSE <<"version", Parsed[2]>>

====
